---- MODULE Spec2Model ----
(***************************************************************************)
(* State-machine model of semantic-release-kandji: the KandjiClient upload *)
(* sequence (signed upload target, storage push, attach loop) and the      *)
(* release hooks that drive it (verifyConditions, prepare, publish and     *)
(* kandjiSemanticReleasePlugin).                                           *)
(*                                                                         *)
(* A JavaScript async function runs without interruption up to its next    *)
(* await on the network or on a timer, so one action is one such stretch:  *)
(* a hook call up to its first request, or the arrival of one response (or *)
(* the firing of the retry timer) and everything the code does after it up *)
(* to the next request.  Strings are sequences of tokens.                  *)
(***************************************************************************)
EXTENDS Integers, Sequences, FiniteSets, TLC

VARIABLES
  pc,          \* "idle" | "signed" | "s3" | "attach" | "wait" | "postinstall" | "get" | "done"
  entry,       \* the hook that was called
  cfg,         \* pluginConfig, context and environment of the call
  result,      \* "pending" | "returned" | "skipped" | "threw"
  thrown,      \* the error the hook threw
  attempt,     \* updateCustomApp's attempt parameter
  filePath,    \* upload's filepath
  signedUrl,   \* what getSignedUrl returned to upload
  request,     \* the HTTP request in flight
  lastAttach,  \* the last answer to an attach PATCH
  s3Resp,      \* the answer to the storage push
  uploadDone,  \* upload() has returned
  resolved,    \* whether resolveAsset was called, and the file it returned
  nSigned,     \* signed-target requests issued
  nPush,       \* storage pushes issued
  nPatch,      \* attach PATCH requests issued
  n2xx,        \* attach PATCH requests answered 2xx
  nWait,       \* retry timers started
  nPost,       \* postinstall_script PATCH requests issued
  elapsed,     \* milliseconds spent in retry timers
  remote,      \* the custom app record on the backend
  nGet,        \* GET requests issued
  inFlight,    \* requests issued and not yet settled
  postResp,    \* the answer to the postinstall_script PATCH
  calls,       \* two interleaved upload() calls: each call's locals
  attempts     \* two interleaved upload() calls: each call's attempt parameter

vars == <<pc, entry, cfg, result, thrown, attempt, filePath, signedUrl, request,
          lastAttach, s3Resp, uploadDone, resolved, nSigned, nPush, nPatch,
          n2xx, nWait, nPost, elapsed, remote, nGet, inFlight, postResp,
          calls, attempts>>

-----------------------------------------------------------------------------
(* Program constants *)

maxAttempts == 10

timeoutDuration == 5000

(* Bounds of the model *)

\* longest postinstall script, in lines
MaxLines == 2

\* most entries of signedUrl.post_data
MaxFields == 2

-----------------------------------------------------------------------------
(* Values *)

\* a JavaScript undefined string option
Undefined == "<undefined>"

\* an absent asset option, an absent error detail, an absent request body
NoAsset == <<>>
NoDetail == <<>>
NoFile == <<>>

\* !x for a string option
Falsy(v) == v \in {Undefined, ""}

VersionPlaceholder == "${nextRelease.version}"

Marker == <<"still", "being", "processed">>

Disk ==
  { <<"dist", "/", "app-", "1.0", ".zip">>,
    <<"dist", "/", "app-", "2.0", ".zip">>,
    <<"notes.txt">> }

Assets ==
  { NoAsset,
    <<"dist", "/", "app-", VersionPlaceholder, ".zip">>,
    <<"dist", "/", "app-", "*", ".zip">>,
    <<"dist", "/", "*", ".pkg">>,
    <<"notes.txt">> }

Versions == {Undefined, "1.0", "3.0"}

ScriptLines == <<"#!/bin/bash", "cp a b", "exit 0">>

Scripts == {SubSeq(ScriptLines, 1, n) : n \in 0..MaxLines}

PostFieldNames == {"key", "policy", "file"}

PostValue(name) == IF name = "key" THEN "stale-key" ELSE "v-" \o name

\* post_data objects: each name at most once, in property order
PostDatas ==
  { s \in UNION {[1..n -> PostFieldNames] : n \in 0..MaxFields} :
      \A i, j \in DOMAIN s : i # j => s[i] # s[j] }

OldKey == "k0"
FileKeys == {"k1"}

\* axios' default validateStatus
Is2xx(status) == status >= 200 /\ status < 300

\* what an axios call settles with: the response (error.response, status and
\* data.detail), or a rejection without a response
Resp(hasResponse, status, detail) ==
  [name |-> IF hasResponse /\ Is2xx(status) THEN "Response" ELSE "AxiosError",
   response |-> hasResponse, status |-> status, detail |-> detail]

NetworkError == Resp(FALSE, 0, NoDetail)

Err(name) == [name |-> name, response |-> FALSE, status |-> 0, detail |-> NoDetail]

NoError == Err("none")

ApiResponses ==
  { Resp(TRUE, 200, NoDetail),
    Resp(TRUE, 503, <<"object", "is", "still", "being", "processed">>),
    Resp(TRUE, 503, <<"service", "unavailable">>),
    Resp(TRUE, 503, NoDetail),
    Resp(TRUE, 404, <<"resource", "not", "found">>),
    Resp(TRUE, 500, <<"still", "being", "processed">>),
    NetworkError }

StorageResponses ==
  { Resp(TRUE, 204, NoDetail),
    Resp(TRUE, 403, NoDetail),
    NetworkError }

NoRequest == [kind |-> "none"]

-----------------------------------------------------------------------------
(* Pure helpers *)

IsPrefix(p, s) == Len(p) <= Len(s) /\ SubSeq(s, 1, Len(p)) = p

RECURSIVE Includes(_, _)
\* String.prototype.includes
Includes(s, sub) ==
  IF IsPrefix(sub, s) THEN TRUE
  ELSE IF s = <<>> THEN FALSE
  ELSE Includes(Tail(s), sub)

RECURSIVE Join(_, _)
\* Array.prototype.join
Join(lines, sep) ==
  IF lines = <<>> THEN <<>>
  ELSE IF Len(lines) = 1 THEN <<lines[1]>>
  ELSE <<lines[1], sep>> \o Join(Tail(lines), sep)

RECURSIVE LastSegment(_)
\* filepath.split("/").pop()
LastSegment(path) ==
  IF \E i \in DOMAIN path : path[i] = "/"
  THEN LastSegment(Tail(path))
  ELSE path

\* assetPattern.replace(/\$\{nextRelease\.version\}/g, nextReleaseVersion)
ProcessedPattern(assetPattern, version) ==
  [i \in DOMAIN assetPattern |->
     IF assetPattern[i] = VersionPlaceholder THEN version ELSE assetPattern[i]]

RECURSIVE GlobMatch(_, _)
\* one path against one glob pattern: "*" stands for any run of tokens
\* inside one path segment
GlobMatch(pat, path) ==
  IF pat = <<>> THEN path = <<>>
  ELSE IF Head(pat) = "*"
    THEN GlobMatch(Tail(pat), path)
         \/ (path # <<>> /\ Head(path) # "/" /\ GlobMatch(pat, Tail(path)))
  ELSE path # <<>> /\ Head(path) = Head(pat) /\ GlobMatch(Tail(pat), Tail(path))

\* glob.sync(processedPattern)
GlobSync(pattern) == {f \in Disk : GlobMatch(pattern, f)}

-----------------------------------------------------------------------------
(* The code's decisions *)

\* the constructor's guard
ConstructorThrows(baseUrl, apiToken) == Falsy(baseUrl) \/ Falsy(apiToken)

\* the gate without its two comparisons with the branch
ReleaseSkippedIgnoringBranch(release, preRelease, isPrerelease) ==
  ~release /\ ~preRelease

\* the gate of publish and of kandjiSemanticReleasePlugin
ReleaseSkipped(release, preRelease, isPrerelease) ==
  \/ (~release /\ ~preRelease)
  \/ (isPrerelease /\ ~preRelease)
  \/ (~isPrerelease /\ ~release)

\* verifyConditions: the error it throws, or NoError
VerifyConditions(c) ==
  IF Falsy(c.baseUrl) \/ Falsy(c.apiToken) THEN Err("ConfigError")
  ELSE IF Falsy(c.appID) \/ c.asset = NoAsset THEN Err("ConfigError")
  ELSE NoError

\* resolveAsset without its check for several matches
resolveAssetFirstMatch(assetPattern, nextReleaseVersion) ==
  IF Falsy(nextReleaseVersion)
    THEN [file |-> NoFile, error |-> Err("VersionUndefined")]
  ELSE IF assetPattern = NoAsset
    THEN [file |-> NoFile, error |-> Err("TypeError")]
  ELSE LET matchedFiles == GlobSync(ProcessedPattern(assetPattern, nextReleaseVersion))
       IN IF Cardinality(matchedFiles) = 0
            THEN [file |-> NoFile, error |-> Err("NoFilesFound")]
          ELSE [file |-> CHOOSE f \in matchedFiles : TRUE, error |-> NoError]

\* resolveAsset: the file it returns, or the error it throws
resolveAsset(assetPattern, nextReleaseVersion) ==
  IF Falsy(nextReleaseVersion)
    THEN [file |-> NoFile, error |-> Err("VersionUndefined")]
  ELSE IF assetPattern = NoAsset
    THEN [file |-> NoFile, error |-> Err("TypeError")]
  ELSE LET matchedFiles == GlobSync(ProcessedPattern(assetPattern, nextReleaseVersion))
       IN IF Cardinality(matchedFiles) = 0
            THEN [file |-> NoFile, error |-> Err("NoFilesFound")]
          ELSE IF Cardinality(matchedFiles) > 1
            THEN [file |-> NoFile, error |-> Err("MultipleFilesMatched")]
          ELSE [file |-> CHOOSE f \in matchedFiles : TRUE, error |-> NoError]

\* axios rejects unless the status passes validateStatus
AxiosResolves(r) == r.response /\ Is2xx(r.status)

\* a catch in uploadToS3 that logs and does not rethrow
UploadToS3Swallows(r) == FALSE

\* uploadToS3's catch rethrows what axios rejected with
UploadToS3Throws(r) == ~AxiosResolves(r)

\* the retry condition without the comparison of the status
IsStillProcessingAnyStatus(error) ==
  error.response /\ Includes(error.detail, Marker)

\* updateCustomApp's retry condition
IsStillProcessing(error) ==
  error.response /\ error.status = 503 /\ Includes(error.detail, Marker)

\* the bound, one attempt late
AttemptsExhaustedLate(a) == a > maxAttempts + 1

\* updateCustomApp's bound
AttemptsExhausted(a) == a > maxAttempts

\* the Authorization header of request and of getSignedUrl
ApiHeaders(apiToken) == apiToken

\* the storage push sent with the API's Authorization header
StorageHeadersWithToken(apiToken) == apiToken

\* the headers of the storage push, fileFormData.getHeaders(): no Authorization
StorageHeaders(apiToken) == Undefined

\* Object.entries(signedUrl.post_data)
Entries(post_data) ==
  [i \in DOMAIN post_data |->
     [name |-> post_data[i], value |-> PostValue(post_data[i]), isFile |-> FALSE]]

NotKey(e) == e.name # "key"

\* the multipart body without the skip of post_data's own "key"
FormDataAllEntries(su, filepath) ==
  <<[name |-> "key", value |-> su.file_key, isFile |-> FALSE]>>
  \o Entries(su.post_data)
  \o <<[name |-> "file", value |-> filepath, isFile |-> TRUE]>>

\* the multipart body uploadToS3 builds
FormData(su, filepath) ==
  <<[name |-> "key", value |-> su.file_key, isFile |-> FALSE]>>
  \o SelectSeq(Entries(su.post_data), NotKey)
  \o <<[name |-> "file", value |-> filepath, isFile |-> TRUE]>>

-----------------------------------------------------------------------------
(* Inputs *)

AppIDs == {Undefined, "app-123"}
BaseUrls == {Undefined, "https://api"}
ApiTokens == {Undefined, "token"}

NoConfig ==
  [appID |-> Undefined, asset |-> NoAsset, release |-> TRUE, preRelease |-> FALSE,
   postinstall_script |-> <<>>, postinstallScript |-> <<>>,
   baseUrl |-> Undefined, apiToken |-> Undefined,
   prerelease |-> FALSE, version |-> Undefined]

\* publish reads all of them
PublishConfigs ==
  [appID : AppIDs, asset : Assets, release : BOOLEAN, preRelease : BOOLEAN,
   postinstall_script : Scripts, postinstallScript : Scripts,
   baseUrl : BaseUrls, apiToken : ApiTokens,
   prerelease : BOOLEAN, version : Versions]

\* kandjiSemanticReleasePlugin reads neither nextRelease nor postinstallScript
PluginConfigs ==
  {c \in PublishConfigs : c.version = Undefined /\ c.postinstallScript = <<>>}

\* verifyConditions reads appID, asset and the environment
VerifyConfigs ==
  {c \in PluginConfigs :
     /\ c.release /\ ~c.preRelease /\ ~c.prerelease
     /\ c.postinstall_script = <<>>}

\* prepare reads asset and nextRelease.version
PrepareConfigs ==
  {[NoConfig EXCEPT !.asset = a, !.version = v] : a \in Assets, v \in Versions}

SignedUrls ==
  [post_url : {"https://s3/x"}, file_key : FileKeys, post_data : PostDatas]

NoSignedUrl == [post_url |-> "none", file_key |-> "none", post_data |-> <<>>]

\* the two upload() calls that run interleaved
Calls == {1, 2}

\* the locals of an upload() call that has not started
NoCall ==
  [pc |-> "idle", appId |-> Undefined, file_key |-> "none", lastAttach |-> NoError,
   outcome |-> "pending", thrown |-> NoError, nPatch |-> 0, nWait |-> 0,
   patch |-> [appId |-> Undefined, file_key |-> "none"]]

\* what the interleaved calls are given and what they meet
CallAppIds == {"app-123", "app-456"}
CallKeys == {"k1", "k2"}
CallResponses ==
  { Resp(TRUE, 200, NoDetail),
    Resp(TRUE, 503, <<"object", "is", "still", "being", "processed">>),
    Resp(TRUE, 404, <<"resource", "not", "found">>) }

\* attempt kept on the client instance, one cell for every call
SharedAttemptCell(p) == 1

\* where the attempt of call p lives: the parameter of its own updateCustomApp
AttemptCell(p) == p

-----------------------------------------------------------------------------
(* Steps shared by the actions *)

counters == <<nSigned, nPush, nPatch, n2xx, nWait, nPost, elapsed, nGet>>

\* requests issued so far
Issued == nSigned + nPush + nPatch + nPost + nGet

\* a hook that throws a new Error made from the message of what it caught
EndWrapped(res, err) ==
  /\ pc' = "done"
  /\ result' = res
  /\ thrown' = IF err.name = "AxiosError" THEN Err("Error") ELSE err
  /\ request' = NoRequest

\* the hook returns or throws
End(res, err) ==
  /\ pc' = "done"
  /\ result' = res
  /\ thrown' = err
  /\ request' = NoRequest

\* upload(filepath, appId) up to its first await: fs.realpathSync throws for a
\* path that is not on disk, then getSignedUrl posts the file name
upload(filepath, c) ==
  /\ filePath' = filepath
  /\ IF filepath \notin Disk
       THEN End("threw", Err("ENOENT")) /\ nSigned' = nSigned
       ELSE /\ pc' = "signed"
            /\ request' = [kind |-> "getSignedUrl", method |-> "POST", to |-> "api",
                           auth |-> ApiHeaders(c.apiToken),
                           body |-> LastSegment(filepath)]
            /\ nSigned' = nSigned + 1
            /\ UNCHANGED <<result, thrown>>

\* updateCustomApp(appId, fileKey, a) up to its await
updateCustomApp(appId, key, a) ==
  /\ attempt' = a
  /\ IF AttemptsExhausted(a)
       THEN End("threw", Err("ConvergenceTimeout")) /\ nPatch' = nPatch
       ELSE /\ pc' = "attach"
            /\ request' = [kind |-> "updateCustomApp", method |-> "PATCH", to |-> "api",
                           auth |-> ApiHeaders(cfg.apiToken), appId |-> appId,
                           body |-> [file_key |-> key]]
            /\ nPatch' = nPatch + 1
            /\ UNCHANGED <<result, thrown>>

\* the script the hook reads from pluginConfig
ScriptOption(e, c) ==
  IF e = "publish" THEN c.postinstallScript ELSE c.postinstall_script

\* what publish and kandjiSemanticReleasePlugin do once upload has returned
AfterUpload ==
  LET script == ScriptOption(entry, cfg)
  IN IF Len(script) > 0
       THEN /\ pc' = "postinstall"
            /\ request' = [kind |-> "postinstall", method |-> "PATCH", to |-> "api",
                           auth |-> ApiHeaders(cfg.apiToken), appId |-> cfg.appID,
                           body |-> [postinstall_script |-> Join(script, "\n")]]
            /\ nPost' = nPost + 1
            /\ UNCHANGED <<result, thrown>>
       ELSE End("returned", NoError) /\ nPost' = nPost

-----------------------------------------------------------------------------
(* Actions *)

Init ==
  /\ pc = "idle"
  /\ entry = "none"
  /\ cfg = NoConfig
  /\ result = "pending"
  /\ thrown = NoError
  /\ attempt = 0
  /\ filePath = NoFile
  /\ signedUrl = NoSignedUrl
  /\ request = NoRequest
  /\ lastAttach = NoError
  /\ s3Resp = NoError
  /\ uploadDone = FALSE
  /\ resolved = [called |-> FALSE, file |-> NoFile]
  /\ nSigned = 0 /\ nPush = 0 /\ nPatch = 0 /\ n2xx = 0
  /\ nWait = 0 /\ nPost = 0 /\ elapsed = 0
  /\ remote = [file_key |-> OldKey, postinstall_script |-> <<>>]
  /\ nGet = 0
  /\ inFlight = 0
  /\ postResp = NoError
  /\ calls = [p \in Calls |-> NoCall]
  /\ attempts = [p \in Calls |-> 0]

verifyConditions ==
  /\ pc = "idle"
  /\ \E c \in VerifyConfigs :
       /\ entry' = "verifyConditions"
       /\ cfg' = c
       /\ LET e == VerifyConditions(c)
          IN End(IF e = NoError THEN "returned" ELSE "threw", e)
  /\ UNCHANGED <<attempt, filePath, signedUrl, lastAttach, s3Resp, uploadDone,
                 resolved, counters, remote>>
  /\ UNCHANGED <<inFlight, postResp, calls, attempts>>

prepare ==
  /\ pc = "idle"
  /\ \E c \in PrepareConfigs :
       /\ entry' = "prepare"
       /\ cfg' = c
       /\ LET r == resolveAsset(c.asset, c.version)
          IN /\ resolved' = [called |-> TRUE, file |-> r.file]
             \* fs.access of a file glob has just matched succeeds
             /\ End(IF r.error = NoError THEN "returned" ELSE "threw", r.error)
  /\ UNCHANGED <<attempt, filePath, signedUrl, lastAttach, s3Resp, uploadDone,
                 counters, remote>>
  /\ UNCHANGED <<inFlight, postResp, calls, attempts>>

publish ==
  /\ pc = "idle"
  /\ \E c \in PublishConfigs :
       /\ entry' = "publish"
       /\ cfg' = c
       /\ IF ReleaseSkipped(c.release, c.preRelease, c.prerelease)
            THEN /\ End("skipped", NoError)
                 /\ UNCHANGED <<resolved, filePath, nSigned>>
          ELSE IF ConstructorThrows(c.baseUrl, c.apiToken)
            THEN /\ End("threw", Err("ConfigError"))
                 /\ UNCHANGED <<resolved, filePath, nSigned>>
          ELSE LET r == resolveAsset(c.asset, c.version)
               IN /\ resolved' = [called |-> TRUE, file |-> r.file]
                  /\ IF r.error # NoError
                       THEN End("threw", r.error) /\ UNCHANGED <<filePath, nSigned>>
                       ELSE upload(r.file, c)
  /\ UNCHANGED <<attempt, signedUrl, lastAttach, s3Resp, uploadDone,
                 nPush, nPatch, n2xx, nWait, nPost, elapsed, remote>>
  /\ UNCHANGED <<nGet, postResp, calls, attempts>>
  /\ inFlight' = inFlight + (Issued' - Issued)

kandjiSemanticReleasePlugin ==
  /\ pc = "idle"
  /\ \E c \in PluginConfigs :
       /\ entry' = "kandjiSemanticReleasePlugin"
       /\ cfg' = c
       /\ IF ReleaseSkipped(c.release, c.preRelease, c.prerelease)
            THEN End("skipped", NoError) /\ UNCHANGED <<filePath, nSigned>>
          ELSE IF Falsy(c.appID) \/ c.asset = NoAsset
            THEN End("threw", Err("ConfigError")) /\ UNCHANGED <<filePath, nSigned>>
          ELSE IF Falsy(c.baseUrl) \/ Falsy(c.apiToken)
            THEN End("threw", Err("ConfigError")) /\ UNCHANGED <<filePath, nSigned>>
          ELSE IF ConstructorThrows(c.baseUrl, c.apiToken)
            THEN End("threw", Err("ConfigError")) /\ UNCHANGED <<filePath, nSigned>>
          \* fs.access(asset) and upload's fs.realpathSync take asset as a path
          ELSE upload(c.asset, c)
  /\ UNCHANGED <<attempt, signedUrl, lastAttach, s3Resp, uploadDone, resolved,
                 nPush, nPatch, n2xx, nWait, nPost, elapsed, remote>>
  /\ UNCHANGED <<nGet, postResp, calls, attempts>>
  /\ inFlight' = inFlight + (Issued' - Issued)

\* upload without the await on uploadToS3: the attach PATCH leaves with the push
SignedUrlResponseNoAwait ==
  /\ pc = "signed"
  /\ \/ \E r \in {Resp(TRUE, 401, NoDetail), NetworkError} :
          /\ End("threw", r)
          /\ UNCHANGED <<signedUrl, nPush, attempt, nPatch>>
     \/ \E su \in SignedUrls :
          /\ signedUrl' = su
          /\ nPush' = nPush + 1
          /\ updateCustomApp(cfg.appID, su.file_key, 0)
  /\ UNCHANGED <<entry, cfg, filePath, lastAttach, s3Resp, uploadDone,
                 resolved, nSigned, n2xx, nWait, nPost, elapsed, remote>>
  /\ UNCHANGED <<nGet, postResp, calls, attempts>>
  /\ inFlight' = inFlight - 1 + (Issued' - Issued)

\* getSignedUrl asking once more after a failure
SignedUrlResponseRetrying ==
  /\ pc = "signed"
  /\ \/ \E r \in {Resp(TRUE, 401, NoDetail), NetworkError} :
          /\ IF nSigned < 2
               THEN UNCHANGED <<pc, request, result, thrown>>
               ELSE End("threw", r)
          /\ UNCHANGED <<signedUrl, nPush>>
     \/ \E su \in SignedUrls :
          /\ signedUrl' = su
          /\ pc' = "s3"
          /\ request' = [kind |-> "uploadToS3", method |-> "POST", to |-> "storage",
                         auth |-> StorageHeaders(cfg.apiToken), url |-> su.post_url,
                         body |-> FormData(su, filePath)]
          /\ nPush' = nPush + 1
          /\ UNCHANGED <<result, thrown>>
  /\ UNCHANGED <<entry, cfg, attempt, filePath, lastAttach, s3Resp, uploadDone,
                 resolved, nPatch, n2xx, nWait, nPost, elapsed, remote>>
  /\ UNCHANGED <<nGet, postResp, calls, attempts>>
  /\ nSigned' = IF pc' = "signed" THEN nSigned + 1 ELSE nSigned
  /\ inFlight' = inFlight - 1 + (Issued' - Issued)

\* getSignedUrl settles; on success uploadToS3 builds the form and posts it
SignedUrlResponse ==
  /\ pc = "signed"
  /\ \/ \E r \in {Resp(TRUE, 401, NoDetail), NetworkError} :
          /\ End("threw", r)
          /\ UNCHANGED <<signedUrl, nPush>>
     \/ \E su \in SignedUrls :
          /\ signedUrl' = su
          /\ pc' = "s3"
          /\ request' = [kind |-> "uploadToS3", method |-> "POST", to |-> "storage",
                         auth |-> StorageHeaders(cfg.apiToken), url |-> su.post_url,
                         body |-> FormData(su, filePath)]
          /\ nPush' = nPush + 1
          /\ UNCHANGED <<result, thrown>>
  /\ UNCHANGED <<entry, cfg, attempt, filePath, lastAttach, s3Resp, uploadDone,
                 resolved, nSigned, nPatch, n2xx, nWait, nPost, elapsed, remote>>
  /\ UNCHANGED <<nGet, postResp, calls, attempts>>
  /\ inFlight' = inFlight - 1 + (Issued' - Issued)

\* uploadToS3 posting once more after a failure
S3ResponseRetrying ==
  /\ pc = "s3"
  /\ \E r \in StorageResponses :
       /\ s3Resp' = r
       /\ IF UploadToS3Throws(r)
            THEN /\ IF nPush < 2
                      THEN UNCHANGED <<pc, request, result, thrown>>
                      ELSE End("threw", r)
                 /\ UNCHANGED <<attempt, nPatch>>
            ELSE updateCustomApp(cfg.appID, signedUrl.file_key, 0)
  /\ UNCHANGED <<entry, cfg, filePath, signedUrl, lastAttach, uploadDone, resolved,
                 nSigned, n2xx, nWait, nPost, elapsed, remote>>
  /\ UNCHANGED <<nGet, postResp, calls, attempts>>
  /\ nPush' = IF pc' = "s3" THEN nPush + 1 ELSE nPush
  /\ inFlight' = inFlight - 1 + (Issued' - Issued)

\* the storage push settles; on success updateCustomApp starts at attempt 0
S3Response ==
  /\ pc = "s3"
  /\ \E r \in StorageResponses :
       /\ s3Resp' = r
       /\ IF UploadToS3Throws(r)
            THEN End("threw", r) /\ UNCHANGED <<attempt, nPatch>>
            ELSE updateCustomApp(cfg.appID, signedUrl.file_key, 0)
  /\ UNCHANGED <<entry, cfg, filePath, signedUrl, lastAttach, uploadDone, resolved,
                 nSigned, nPush, n2xx, nWait, nPost, elapsed, remote>>
  /\ UNCHANGED <<nGet, postResp, calls, attempts>>
  /\ inFlight' = inFlight - 1 + (Issued' - Issued)

\* the attach PATCH settles
AttachResponse ==
  /\ pc = "attach"
  /\ \E r \in ApiResponses :
       /\ lastAttach' = r
       /\ IF AxiosResolves(r)
            THEN /\ n2xx' = n2xx + 1
                 /\ remote' = [remote EXCEPT !.file_key = request.body.file_key]
                 /\ uploadDone' = TRUE
                 /\ AfterUpload
                 /\ UNCHANGED nWait
          ELSE IF IsStillProcessing(r)
            THEN /\ pc' = "wait"
                 /\ request' = NoRequest
                 /\ nWait' = nWait + 1
                 /\ UNCHANGED <<result, thrown, n2xx, remote, uploadDone, nPost>>
          ELSE /\ End("threw", r)
               /\ UNCHANGED <<n2xx, remote, uploadDone, nPost, nWait>>
  /\ UNCHANGED <<entry, cfg, attempt, filePath, signedUrl, s3Resp, resolved,
                 nSigned, nPush, nPatch, elapsed>>
  /\ UNCHANGED <<nGet, postResp, calls, attempts>>
  /\ inFlight' = inFlight - 1 + (Issued' - Issued)

\* the timer started without its duration
TimerFiresEarly ==
  /\ pc = "wait"
  /\ elapsed' = elapsed
  /\ updateCustomApp(cfg.appID, signedUrl.file_key, attempt + 1)
  /\ UNCHANGED <<entry, cfg, filePath, signedUrl, lastAttach, s3Resp, uploadDone,
                 resolved, nSigned, nPush, n2xx, nWait, nPost, remote>>
  /\ UNCHANGED <<nGet, postResp, calls, attempts>>
  /\ inFlight' = inFlight + (Issued' - Issued)

\* the retry that passes attempt on without adding 1
TimerFiresSameAttempt ==
  /\ pc = "wait"
  /\ elapsed' = elapsed + timeoutDuration
  /\ updateCustomApp(cfg.appID, signedUrl.file_key, attempt)
  /\ UNCHANGED <<entry, cfg, filePath, signedUrl, lastAttach, s3Resp, uploadDone,
                 resolved, nSigned, nPush, n2xx, nWait, nPost, remote>>
  /\ UNCHANGED <<nGet, postResp, calls, attempts>>
  /\ inFlight' = inFlight + (Issued' - Issued)

\* the retry with appId and fileKey in the wrong order
TimerFiresSwapped ==
  /\ pc = "wait"
  /\ elapsed' = elapsed + timeoutDuration
  /\ updateCustomApp(signedUrl.file_key, cfg.appID, attempt + 1)
  /\ UNCHANGED <<entry, cfg, filePath, signedUrl, lastAttach, s3Resp, uploadDone,
                 resolved, nSigned, nPush, n2xx, nWait, nPost, remote>>
  /\ UNCHANGED <<nGet, postResp, calls, attempts>>
  /\ inFlight' = inFlight + (Issued' - Issued)

\* the 5 second timer fires and updateCustomApp calls itself with attempt + 1
TimerFires ==
  /\ pc = "wait"
  /\ elapsed' = elapsed + timeoutDuration
  /\ updateCustomApp(cfg.appID, signedUrl.file_key, attempt + 1)
  /\ UNCHANGED <<entry, cfg, filePath, signedUrl, lastAttach, s3Resp, uploadDone,
                 resolved, nSigned, nPush, n2xx, nWait, nPost, remote>>
  /\ UNCHANGED <<nGet, postResp, calls, attempts>>
  /\ inFlight' = inFlight + (Issued' - Issued)

\* a hook that logs the failed postinstall_script PATCH and returns
PostinstallResponseSwallows ==
  /\ pc = "postinstall"
  /\ \E r \in ApiResponses :
       /\ postResp' = r
       /\ IF AxiosResolves(r)
            THEN /\ remote' = [remote EXCEPT
                                 !.postinstall_script = request.body.postinstall_script]
                 /\ End("returned", NoError)
            ELSE End("returned", NoError) /\ UNCHANGED remote
  /\ UNCHANGED <<entry, cfg, attempt, filePath, signedUrl, lastAttach, s3Resp,
                 uploadDone, resolved, counters>>
  /\ UNCHANGED <<calls, attempts>>
  /\ inFlight' = inFlight - 1 + (Issued' - Issued)

\* the postinstall_script PATCH settles
PostinstallResponse ==
  /\ pc = "postinstall"
  /\ \E r \in ApiResponses :
       /\ postResp' = r
       /\ IF AxiosResolves(r)
            THEN /\ remote' = [remote EXCEPT
                                 !.postinstall_script = request.body.postinstall_script]
                 /\ End("returned", NoError)
            ELSE End("threw", r) /\ UNCHANGED remote
  /\ UNCHANGED <<entry, cfg, attempt, filePath, signedUrl, lastAttach, s3Resp,
                 uploadDone, resolved, counters>>
  /\ UNCHANGED <<calls, attempts>>
  /\ inFlight' = inFlight - 1 + (Issued' - Issued)

\* the CLI's get-app command up to the GET of getCustomAppById; the command
\* prints what it catches
getApp ==
  /\ pc = "idle"
  /\ \E uri \in BaseUrls, token \in ApiTokens, id \in AppIDs \ {Undefined} :
       /\ entry' = "get-app"
       /\ cfg' = [NoConfig EXCEPT !.baseUrl = uri, !.apiToken = token, !.appID = id]
       /\ IF ConstructorThrows(uri, token)
            THEN End("reported", Err("ConfigError")) /\ nGet' = nGet
            ELSE /\ pc' = "get"
                 /\ request' = [kind |-> "getCustomAppById", method |-> "GET",
                                to |-> "api", auth |-> ApiHeaders(token), appId |-> id]
                 /\ nGet' = nGet + 1
                 /\ UNCHANGED <<result, thrown>>
  /\ UNCHANGED <<attempt, filePath, signedUrl, lastAttach, s3Resp, uploadDone,
                 resolved, nSigned, nPush, nPatch, n2xx, nWait, nPost, elapsed,
                 remote, postResp, calls, attempts>>
  /\ inFlight' = inFlight + (Issued' - Issued)

\* the GET settles
GetResponse ==
  /\ pc = "get"
  /\ \E r \in ApiResponses :
       IF AxiosResolves(r) THEN End("returned", NoError) ELSE End("reported", r)
  /\ UNCHANGED <<entry, cfg, attempt, filePath, signedUrl, lastAttach, s3Resp,
                 uploadDone, resolved, counters, remote, postResp, calls, attempts>>
  /\ inFlight' = inFlight - 1 + (Issued' - Issued)

Next ==
  \/ verifyConditions
  \/ prepare
  \/ publish
  \/ kandjiSemanticReleasePlugin
  \/ SignedUrlResponse
  \/ S3Response
  \/ AttachResponse
  \/ TimerFires
  \/ PostinstallResponse
  \/ getApp
  \/ GetResponse

Spec == Init /\ [][Next]_vars

\* every request is answered or fails (axios settles its promise) and the timer
\* started by setTimeout fires
FairSpec ==
  /\ Spec
  /\ WF_vars(SignedUrlResponse)
  /\ WF_vars(S3Response)
  /\ WF_vars(AttachResponse)
  /\ WF_vars(TimerFires)
  /\ WF_vars(PostinstallResponse)
  /\ WF_vars(GetResponse)

-----------------------------------------------------------------------------
(* Two upload() calls on one client, interleaved at their awaits *)

hookVars ==
  <<pc, entry, cfg, result, thrown, attempt, filePath, signedUrl, request,
    lastAttach, s3Resp, uploadDone, resolved, nSigned, nPush, nPatch, n2xx,
    nWait, nPost, elapsed, remote, nGet, inFlight, postResp>>

\* a call ends
CallEnd(p, res, err) ==
  calls' = [calls EXCEPT ![p].pc = "done", ![p].outcome = res, ![p].thrown = err]

\* upload(filePath, appId) runs to its first await, getSignedUrl
CallUpload ==
  \E p \in Calls :
    /\ calls[p].pc = "idle"
    /\ \E a \in CallAppIds :
         calls' = [calls EXCEPT ![p].pc = "signed", ![p].appId = a]
    /\ UNCHANGED attempts
    /\ UNCHANGED hookVars

\* getSignedUrl settles for a call; on success it awaits uploadToS3
CallSignedUrlResponse ==
  \E p \in Calls :
    /\ calls[p].pc = "signed"
    /\ \/ \E k \in CallKeys :
            calls' = [calls EXCEPT ![p].pc = "s3", ![p].file_key = k]
       \/ CallEnd(p, "threw", NetworkError)
    /\ UNCHANGED attempts
    /\ UNCHANGED hookVars

\* the storage push settles for a call; on success updateCustomApp starts with
\* attempt = 0 and awaits its PATCH
CallS3Response ==
  \E p \in Calls :
    /\ calls[p].pc = "s3"
    /\ \E r \in StorageResponses :
         IF UploadToS3Throws(r)
           THEN CallEnd(p, "threw", r) /\ UNCHANGED attempts
           ELSE /\ attempts' = [attempts EXCEPT ![AttemptCell(p)] = 0]
                /\ calls' = [calls EXCEPT ![p].pc = "attach", ![p].nPatch = 1,
                                          ![p].patch = [appId |-> calls[p].appId,
                                                        file_key |-> calls[p].file_key]]
    /\ UNCHANGED hookVars

\* the attach PATCH of a call settles
CallAttachResponse ==
  \E p \in Calls :
    /\ calls[p].pc = "attach"
    /\ \E r \in CallResponses :
         IF AxiosResolves(r)
           THEN calls' = [calls EXCEPT ![p].pc = "done", ![p].outcome = "returned",
                                       ![p].lastAttach = r]
         ELSE IF IsStillProcessing(r)
           THEN calls' = [calls EXCEPT ![p].pc = "wait", ![p].lastAttach = r,
                                       ![p].nWait = @ + 1]
           ELSE calls' = [calls EXCEPT ![p].pc = "done", ![p].outcome = "threw",
                                       ![p].thrown = r, ![p].lastAttach = r]
    /\ UNCHANGED attempts
    /\ UNCHANGED hookVars

\* the timer of a call fires and its updateCustomApp calls itself with attempt + 1
CallTimerFires ==
  \E p \in Calls :
    /\ calls[p].pc = "wait"
    /\ LET a == attempts[AttemptCell(p)] + 1 IN
         /\ attempts' = [attempts EXCEPT ![AttemptCell(p)] = a]
         /\ IF AttemptsExhausted(a)
              THEN CallEnd(p, "threw", Err("ConvergenceTimeout"))
              ELSE calls' = [calls EXCEPT ![p].pc = "attach", ![p].nPatch = @ + 1,
                                          ![p].patch = [appId |-> calls[p].appId,
                                                        file_key |-> calls[p].file_key]]
    /\ UNCHANGED hookVars

NextTwo ==
  \/ CallUpload
  \/ CallSignedUrlResponse
  \/ CallS3Response
  \/ CallAttachResponse
  \/ CallTimerFires

SpecTwo == Init /\ [][NextTwo]_vars

-----------------------------------------------------------------------------
(* Vocabulary of the claims *)

\* the transient signature: status exactly 503 and the marker inside the message
TransientSignature(r) ==
  /\ r.response
  /\ r.status = 503
  /\ \E i \in 1..Len(r.detail) :
       i + 2 <= Len(r.detail) /\ SubSeq(r.detail, i, i + 2) = Marker

\* the answer to an attach PATCH is a failure
AttachFailed(r) == r # NoError /\ ~(r.response /\ r.status \in 200..299)

NoNetwork == nSigned = 0 /\ nPush = 0 /\ nPatch = 0 /\ nPost = 0

TimeoutError == Err("ConvergenceTimeout")

Hooks == {"publish", "kandjiSemanticReleasePlugin"}

-----------------------------------------------------------------------------
(* C1 *)

\* C1 as stated: once 11 attach PATCHes have been issued and the 11th has
\* failed, whatever the failure, the call ends with the convergence-timeout
\* error and not with the underlying error.
C1_EleventhFailureAlwaysTimesOut ==
  (pc = "done" /\ nPatch = 11 /\ AttachFailed(lastAttach))
    => thrown = TimeoutError

\* C1 amended: no attach PATCH is issued with an attempt counter above 10 (at
\* most 10 retries, 11 PATCHes); when the 11th PATCH fails with the transient
\* signature the call ends, after one more wait, with the convergence-timeout
\* error, and when it fails for any other cause the call ends with that
\* underlying error.
C1_BoundedRetriesThenTimeout ==
  /\ attempt <= 11
  /\ pc \in {"attach", "wait"} => (attempt <= 10 /\ nPatch = attempt + 1)
  /\ nPatch <= 11
  /\ (pc = "done" /\ nPatch = 11 /\ AttachFailed(lastAttach)) =>
       /\ result = "threw"
       /\ IF TransientSignature(lastAttach)
            THEN thrown = TimeoutError /\ attempt = 11
            ELSE thrown = lastAttach
  /\ thrown = TimeoutError => (nPatch = 11 /\ TransientSignature(lastAttach))

\* the 11th attach PATCH was answered 404 and the call ended with that error
C1_Witness ==
  /\ pc = "done" /\ nPatch = 11
  /\ lastAttach.status = 404
  /\ thrown = lastAttach

-----------------------------------------------------------------------------
(* C2 *)

\* C2 as stated: once upload has returned, it has issued exactly one
\* signed-target request, exactly one storage push and between 1 and 10 attach
\* PATCHes, of which exactly one, the last, was answered 2xx.
C2_SuccessfulUploadCounts ==
  uploadDone =>
    /\ nSigned = 1
    /\ nPush = 1
    /\ nPatch >= 1 /\ nPatch <= 10
    /\ n2xx = 1
    /\ ~AttachFailed(lastAttach)

-----------------------------------------------------------------------------
(* C3 *)

\* C3 as stated: a failed attach PATCH is followed by a wait and another attach
\* PATCH if and only if it carries the transient signature; any other failure
\* ends the loop at once, with that error, no wait and no further PATCH.
C3_RetryIffTransient ==
  [][ /\ (pc = "attach" /\ AttachFailed(lastAttach')) =>
           IF TransientSignature(lastAttach')
             THEN pc' = "wait"
             ELSE /\ pc' = "done" /\ thrown' = lastAttach'
                  /\ UNCHANGED <<nWait, nPatch, elapsed>>
      /\ pc = "wait" => (pc' = "attach" /\ nPatch' = nPatch + 1)
    ]_vars

\* C3 amended: a failed attach PATCH starts a 5 second wait if and only if it
\* carries the transient signature; after the wait another attach PATCH is
\* issued when the attempt counter is below 10, and at attempt counter 10 the
\* call ends with the convergence-timeout error without another PATCH; any
\* other failure ends the loop at once, with that error, no wait and no
\* further PATCH.
C3_RetryIffTransientBelowBound ==
  [][ /\ (pc = "attach" /\ AttachFailed(lastAttach')) =>
           IF TransientSignature(lastAttach')
             THEN /\ pc' = "wait" /\ nWait' = nWait + 1
                  /\ UNCHANGED <<nPatch, attempt, result>>
             ELSE /\ pc' = "done" /\ result' = "threw" /\ thrown' = lastAttach'
                  /\ UNCHANGED <<nWait, nPatch, elapsed>>
      /\ pc = "wait" =>
           /\ elapsed' = elapsed + 5000
           /\ IF attempt < 10
                THEN /\ pc' = "attach" /\ nPatch' = nPatch + 1
                     /\ attempt' = attempt + 1
                ELSE /\ pc' = "done" /\ thrown' = TimeoutError
                     /\ nPatch' = nPatch
    ]_vars

\* a 503 without the marker ended the loop at the third attempt, after the two
\* waits of the two transient failures before it
C3_Witness ==
  /\ pc = "done" /\ nPatch = 3 /\ nWait = 2 /\ elapsed = 10000
  /\ lastAttach.status = 503 /\ ~TransientSignature(lastAttach)
  /\ thrown = lastAttach

-----------------------------------------------------------------------------
(* C4 *)

\* C4: when the storage push fails, the call has ended with that error, the
\* push was issued once, no PATCH was issued and the resource's file_key is
\* the one it had.
C4_StoragePushFailureIsFatal ==
  AttachFailed(s3Resp) =>
    /\ pc = "done" /\ result = "threw" /\ thrown = s3Resp
    /\ nPush = 1
    /\ nPatch = 0 /\ nPost = 0
    /\ remote.file_key = OldKey

\* the storage backend answered 403
C4_Witness == s3Resp.response /\ s3Resp.status = 403 /\ pc = "done"

-----------------------------------------------------------------------------
(* C5 *)

\* C5: publish and kandjiSemanticReleasePlugin go past the gate exactly when
\* (branch is prerelease and preRelease) or (branch is not prerelease and
\* release); otherwise they return without error and without any request.
C5_ReleaseGating ==
  entry \in Hooks =>
    /\ result # "skipped" <=>
         \/ (cfg.prerelease /\ cfg.preRelease)
         \/ (~cfg.prerelease /\ cfg.release)
    /\ result = "skipped" => (pc = "done" /\ thrown = NoError /\ NoNetwork)

\* release is set, but the branch is a prerelease branch and preRelease is not
C5_Witness ==
  /\ entry = "publish" /\ result = "skipped"
  /\ cfg.release /\ cfg.prerelease /\ ~cfg.preRelease

-----------------------------------------------------------------------------
(* C6 *)

\* C6 as stated, for a postinstall_script option that holds lines: once the
\* upload started by publish or kandjiSemanticReleasePlugin has succeeded,
\* exactly one PATCH carrying the option's lines joined with newlines has been
\* issued, and none before the attach had succeeded.
C6_ReadmeScriptIsPatched ==
  (entry \in Hooks /\ Len(cfg.postinstall_script) > 0) =>
    /\ (uploadDone /\ pc \in {"postinstall", "done"}) => nPost = 1
    /\ pc = "postinstall" =>
         request.body.postinstall_script = Join(cfg.postinstall_script, "\n")
    /\ nPost > 0 => uploadDone

-----------------------------------------------------------------------------
(* C7 *)

\* C7: the multipart body of the storage push starts with the field "key"
\* holding the signed target's file_key, holds no other field named "key",
\* then holds every other post_data field exactly once with its value, and
\* ends with the file part, which is the only file part.
C7_MultipartBody ==
  pc = "s3" =>
    LET body == request.body
        fields == {i \in DOMAIN body : ~body[i].isFile}
        others == {i \in DOMAIN signedUrl.post_data : signedUrl.post_data[i] # "key"}
    IN /\ body[1] = [name |-> "key", value |-> signedUrl.file_key, isFile |-> FALSE]
       /\ Cardinality({i \in fields : body[i].name = "key"}) = 1
       /\ \A i \in others :
            Cardinality({j \in fields : body[j].name = signedUrl.post_data[i]}) = 1
       /\ \A j \in fields \ {1} :
            /\ \E i \in others : body[j].name = signedUrl.post_data[i]
            /\ body[j].value = PostValue(body[j].name)
       /\ Len(body) = Cardinality(others) + 2
       /\ fields = 1..(Len(body) - 1)
       /\ body[Len(body)] = [name |-> "file", value |-> filePath, isFile |-> TRUE]

\* post_data holds an entry named "key" after another entry
C7_Witness ==
  /\ pc = "s3"
  /\ Len(signedUrl.post_data) = 2
  /\ signedUrl.post_data[2] = "key"

-----------------------------------------------------------------------------
(* C8 *)

\* C8: with an asset pattern and a version, resolveAsset in prepare and
\* publish returns a file exactly when the pattern with the version filled in
\* matches exactly one file, and that file is the match; otherwise (no match,
\* several matches, or no pattern or version at all) the step has thrown
\* without any request.
C8_AssetResolution ==
  resolved.called =>
    LET given == cfg.asset # NoAsset /\ cfg.version # Undefined
        matches == {f \in Disk : GlobMatch(ProcessedPattern(cfg.asset, cfg.version), f)}
    IN /\ resolved.file # NoFile <=> (given /\ Cardinality(matches) = 1)
       /\ resolved.file # NoFile => resolved.file \in matches
       /\ resolved.file = NoFile =>
            /\ pc = "done" /\ result = "threw" /\ NoNetwork
            /\ (given /\ matches = {}) => thrown = Err("NoFilesFound")
            /\ (given /\ Cardinality(matches) > 1) => thrown = Err("MultipleFilesMatched")

\* publish found two files for its pattern
C8_Witness ==
  /\ entry = "publish" /\ resolved.called
  /\ thrown = Err("MultipleFilesMatched")
  /\ Cardinality(GlobSync(ProcessedPattern(cfg.asset, cfg.version))) = 2

-----------------------------------------------------------------------------
(* C9 *)

\* C9 as stated: when verifyConditions, publish or kandjiSemanticReleasePlugin
\* runs (past the release gate) without a base URL, an API token, an appID or
\* an asset, it has thrown and no request has been issued.
C9_MissingConfigFailsBeforeNetwork ==
  ( /\ entry \in Hooks \cup {"verifyConditions"}
    /\ result # "skipped"
    /\ \/ Falsy(cfg.baseUrl) \/ Falsy(cfg.apiToken)
       \/ Falsy(cfg.appID) \/ cfg.asset = NoAsset )
    => (pc = "done" /\ result = "threw" /\ NoNetwork)

-----------------------------------------------------------------------------
(* C10 *)

\* C10 as stated: one upload starts at most 10 of the 5 second waits, 50
\* seconds in all.
C10_AtMostTenWaits == nWait <= 10 /\ elapsed <= 50000

-----------------------------------------------------------------------------
(* C11 *)

\* C11: an upload that succeeds after k transient failures has issued k + 1
\* attach PATCHes and waited k times 5 seconds; every wait lies between two
\* consecutive PATCHes and none follows the PATCH that succeeded.
C11_TransientThenSuccess ==
  /\ pc = "attach" => (nPatch = nWait + 1 /\ attempt = nWait /\ elapsed = 5000 * nWait)
  /\ pc = "wait" => (nWait = nPatch /\ elapsed = 5000 * (nWait - 1))
  /\ uploadDone =>
       /\ nPatch = nWait + 1
       /\ elapsed = 5000 * nWait
       /\ n2xx = 1 /\ ~AttachFailed(lastAttach)

\* the scenario of the specification: one transient failure, then success
C11_Witness ==
  /\ uploadDone /\ pc = "done" /\ result = "returned"
  /\ nPatch = 2 /\ nWait = 1 /\ elapsed = 5000

-----------------------------------------------------------------------------
(* C12 *)

\* the three ways an upload ends
Done == uploadDone
TimedOut == ~uploadDone /\ pc = "done" /\ result = "threw" /\ thrown = TimeoutError
Failed == ~uploadDone /\ pc = "done" /\ result = "threw" /\ thrown # TimeoutError

\* C12: attempt never decreases and grows by exactly 1 on each retry, it is
\* within 0..maxAttempts whenever an attach PATCH is in flight or waited for,
\* and every upload that has started ends in exactly one of Done, Failed,
\* TimedOut.
C12_UploadTerminates ==
  /\ [][ /\ attempt' >= attempt
         /\ pc = "wait" => attempt' = attempt + 1
         /\ pc # "wait" => attempt' = attempt ]_vars
  /\ [](pc \in {"attach", "wait"} => attempt \in 0..maxAttempts)
  /\ [](~(Done /\ TimedOut) /\ ~(Done /\ Failed) /\ ~(TimedOut /\ Failed))
  /\ (nSigned = 1) ~> (Done \/ Failed \/ TimedOut)

\* the upload that timed out after the last wait
C12_Witness == TimedOut /\ nWait = 11 /\ nPatch = 11 /\ attempt = 11

-----------------------------------------------------------------------------
(* C13 *)

\* C13: the storage push is issued only once the signed-target request has
\* returned a target, the first attach PATCH only once the storage push has
\* been answered 2xx, and at most one request is in flight.
C13_PhasesInOrder ==
  /\ nPush > 0 => (nSigned = 1 /\ signedUrl # NoSignedUrl)
  /\ nPatch > 0 => (nPush = 1 /\ s3Resp.response /\ s3Resp.status \in 200..299)
  /\ pc = "signed" => (nPush = 0 /\ nPatch = 0)
  /\ pc = "s3" => (nPatch = 0 /\ s3Resp = NoError)
  /\ inFlight \in {0, 1}
  /\ inFlight = 1 <=> pc \in {"signed", "s3", "attach", "postinstall", "get"}

\* the first attach PATCH is in flight
C13_Witness == pc = "attach" /\ nPatch = 1 /\ nPush = 1 /\ inFlight = 1

-----------------------------------------------------------------------------
(* C14 *)

\* C14: when an attach PATCH fails without the transient signature, at any
\* attempt, the hook has thrown exactly what the request was rejected with, and
\* no request follows.
C14_UnderlyingErrorUnchanged ==
  (pc # "attach" /\ AttachFailed(lastAttach) /\ ~TransientSignature(lastAttach)) =>
    /\ pc = "done" /\ result = "threw"
    /\ thrown = lastAttach
    /\ thrown # TimeoutError
    /\ ~uploadDone
    /\ nSigned = 1 /\ nPush = 1 /\ nPatch = attempt + 1 /\ nPost = 0
    /\ inFlight = 0 /\ request = NoRequest

\* the sixth attach PATCH met a network error
C14_Witness ==
  /\ pc = "done" /\ attempt = 5
  /\ lastAttach = NetworkError /\ thrown = NetworkError

-----------------------------------------------------------------------------
(* C15 *)

\* C15: when the postinstall_script PATCH fails, the hook has thrown that
\* failure, the file_key of the upload is still attached, and nothing was
\* requested again.
C15_PostinstallFailureKeepsAttach ==
  AttachFailed(postResp) =>
    /\ pc = "done" /\ result = "threw" /\ thrown = postResp
    /\ uploadDone
    /\ remote.file_key = signedUrl.file_key
    /\ remote.postinstall_script = <<>>
    /\ nSigned = 1 /\ nPush = 1 /\ n2xx = 1 /\ nPost = 1
    /\ inFlight = 0 /\ request = NoRequest

\* the postinstall_script PATCH was answered 404
C15_Witness == postResp.response /\ postResp.status = 404 /\ pc = "done"

-----------------------------------------------------------------------------
(* C16 *)

\* C16: a step issues at most one request; the signed-target request, the
\* storage push, the postinstall_script PATCH and the GET are issued at most
\* once; and an attach PATCH after the first is issued only out of the wait
\* that follows a failure with the transient signature.
C16_OnlyAttachLoopRepeats ==
  [][ /\ Issued' <= Issued + 1
      /\ nSigned' <= 1 /\ nPush' <= 1 /\ nPost' <= 1 /\ nGet' <= 1
      /\ (nPatch' > nPatch /\ nPatch >= 1) =>
           (pc = "wait" /\ TransientSignature(lastAttach) /\ nPatch' = nPatch + 1)
    ]_vars

\* a third attach PATCH is in flight
C16_Witness == pc = "attach" /\ nPatch = 3 /\ nSigned = 1 /\ nPush = 1

-----------------------------------------------------------------------------
(* C17 *)

\* C17: of two interleaved upload() calls, a step of one never changes the
\* attempt counter, the file key or the outcome of the other; each call's
\* attach PATCHes carry its own appId and file key, number one more than its
\* own attempt counter and never more than maxAttempts + 1.
C17_CallsAreIndependent ==
  /\ [][ \A p \in Calls : \A q \in Calls \ {p} :
           calls'[p] # calls[p] =>
             (calls'[q] = calls[q] /\ attempts'[q] = attempts[q]) ]_vars
  /\ [](\A q \in Calls :
          /\ calls[q].nPatch <= maxAttempts + 1
          /\ calls[q].pc \in {"attach", "wait"} =>
               (calls[q].nPatch = attempts[q] + 1 /\ attempts[q] <= maxAttempts)
          /\ calls[q].pc = "attach" =>
               /\ calls[q].patch.appId = calls[q].appId
               /\ calls[q].patch.file_key = calls[q].file_key)

\* both calls are in their attach loops for the same app, at different attempts
C17_Witness ==
  /\ calls[1].pc = "wait" /\ calls[2].pc = "attach"
  /\ calls[1].appId = calls[2].appId
  /\ calls[1].file_key = "k1" /\ calls[2].file_key = "k2"
  /\ attempts[1] = 2 /\ attempts[2] = 1

-----------------------------------------------------------------------------
(* C18 *)

\* C18: the signed target is requested at most once and pushed to at most
\* once, and every attach PATCH, retries included, carries the hook's appID
\* and the file_key of the signed target.
C18_SameTargetEveryAttempt ==
  /\ nSigned <= 1 /\ nPush <= 1
  /\ pc = "attach" =>
       /\ request.kind = "updateCustomApp"
       /\ request.appId = cfg.appID
       /\ request.body.file_key = signedUrl.file_key
       /\ signedUrl.file_key \in FileKeys

\* a retry is in flight
C18_Witness ==
  /\ pc = "attach" /\ attempt = 2
  /\ request.appId = "app-123" /\ request.body.file_key = "k1"

-----------------------------------------------------------------------------
(* C19 *)

\* C19: when the signed-target request has failed, the hook has thrown what it
\* was rejected with, after that one request and nothing else.
C19_SignedTargetFailureIsFatal ==
  /\ nSigned <= 1
  /\ (nSigned = 1 /\ pc # "signed" /\ signedUrl = NoSignedUrl) =>
       /\ pc = "done" /\ result = "threw"
       /\ thrown \in {Resp(TRUE, 401, NoDetail), NetworkError}
       /\ nPush = 0 /\ nPatch = 0 /\ nPost = 0
       /\ inFlight = 0
       /\ remote.file_key = OldKey

\* the signed-target request was answered 401
C19_Witness ==
  /\ nSigned = 1 /\ pc = "done" /\ signedUrl = NoSignedUrl
  /\ thrown.status = 401

-----------------------------------------------------------------------------
(* C20 *)

\* C20: a request to the API (GET, PATCH, signed-target POST) carries the API
\* token, and the request to the storage URL does not.
C20_TokenOnlyToApi ==
  request.kind # "none" =>
    /\ request.to = "api" <=>
         request.kind \in {"getCustomAppById", "getSignedUrl", "updateCustomApp",
                           "postinstall"}
    /\ request.to = "storage" <=> request.kind = "uploadToS3"
    /\ request.to = "api" => (request.auth = cfg.apiToken /\ ~Falsy(request.auth))
    /\ request.to = "storage" => request.auth # cfg.apiToken

\* the storage push is in flight
C20_Witness ==
  /\ pc = "s3" /\ request.to = "storage"
  /\ cfg.apiToken = "token" /\ request.auth = Undefined

====
